---- MODULE Spec2Model ----
(***************************************************************************)
(* A model of src/src/rag_engine.py: the tokenizer, the chunker, the BM25  *)
(* and TF-IDF indexes, the query expander and the RAGSystem orchestrator   *)
(* with its result cache.                                                  *)
(*                                                                         *)
(* Texts are TLA+ strings; positions inside the operators that model the   *)
(* Python code are 0-based, as in the source.  Floating-point scores are   *)
(* fixed-point integers: a score s of the program is the integer           *)
(* s * Scale (rounded down), natural logarithms come from the table        *)
(* LnTable, square roots from an integer square root.                      *)
(***************************************************************************)
EXTENDS Integers, Sequences, FiniteSets, TLC

VARIABLES
    config,        \* RAGSystem.config
    documents,     \* RAGSystem.documents
    chunks,        \* RAGSystem.chunks
    bm25_index,    \* RAGSystem.bm25_index
    tfidf_index,   \* RAGSystem.tfidf_index
    cache,         \* RAGSystem._cache, in insertion order
    ret,           \* the last call: its name, arguments and outcome
    mutations,     \* how many load_knowledge_base and add_document calls were made
    split          \* a call that is followed step by step: its position, arguments and locals

vars == <<config, documents, chunks, bm25_index, tfidf_index, cache, ret, mutations, split>>

engine_vars == <<config, documents, chunks, bm25_index, tfidf_index, cache>>

(***************************************************************************)
(* Characters and strings                                                  *)
(***************************************************************************)
LowerLetters == <<"a","b","c","d","e","f","g","h","i","j","k","l","m",
                  "n","o","p","q","r","s","t","u","v","w","x","y","z">>

UpperLetters == <<"A","B","C","D","E","F","G","H","I","J","K","L","M",
                  "N","O","P","Q","R","S","T","U","V","W","X","Y","Z">>

Digits == {"0","1","2","3","4","5","6","7","8","9"}

Range(f) == {f[i] : i \in DOMAIN f}

\* the characters matched by \w of Python's re (the ASCII part)
WordChars == Range(LowerLetters) \cup Range(UpperLetters) \cup Digits \cup {"_"}

\* the characters matched by \s and removed by str.strip()
WhiteSpace == {" ", "\n", "\t", "\r", "\f"}

Min(a, b) == IF a < b THEN a ELSE b

Max(a, b) == IF a > b THEN a ELSE b

\* text[i] for a 0-based position i inside the string
CharAt(text, i) == SubSeq(text, i + 1, i + 1)

\* Python's clamping of a slice bound: negative bounds count from the end
PyIdx(i, n) == IF i < 0 THEN Max(i + n, 0) ELSE Min(i, n)

\* text[start:end]
Slice(text, start, end) ==
    LET n == Len(text)
        s == PyIdx(start, n)
        e == PyIdx(end, n)
    IN  IF s >= e THEN "" ELSE SubSeq(text, s + 1, e)

LowerChar(c) ==
    IF c \in Range(UpperLetters)
    THEN LowerLetters[CHOOSE i \in DOMAIN UpperLetters : UpperLetters[i] = c]
    ELSE c

\* the characters of text[from:to], lowered; halving keeps the recursion shallow
RECURSIVE lower_range(_, _, _)
lower_range(text, from, to) ==
    IF from >= to THEN ""
    ELSE IF from + 1 = to THEN LowerChar(CharAt(text, from))
    ELSE LET mid == (from + to) \div 2
         IN  lower_range(text, from, mid) \o lower_range(text, mid, to)

\* str.lower()
lower(text) == lower_range(text, 0, Len(text))

MinOf(S) == CHOOSE i \in S : \A j \in S : i <= j

MaxOf(S) == CHOOSE i \in S : \A j \in S : j <= i

\* the first position >= i whose character is in (inside = TRUE) or not in
\* (inside = FALSE) the set chars; Len(text) when there is none
first_pos(text, i, chars, inside) ==
    LET hits == {j \in i..(Len(text) - 1) : (CharAt(text, j) \in chars) = inside}
    IN  IF hits = {} THEN Len(text) ELSE MinOf(hits)

\* the position where the white space that starts at i ends
lstrip_pos(text, i) == first_pos(text, i, WhiteSpace, FALSE)

\* the position after the last character that is not white space
rstrip_pos(text) ==
    LET hits == {j \in 0..(Len(text) - 1) : CharAt(text, j) \notin WhiteSpace}
    IN  IF hits = {} THEN 0 ELSE MaxOf(hits) + 1

\* str.strip()
strip(text) ==
    LET s == lstrip_pos(text, 0)
    IN  IF s >= Len(text) THEN "" ELSE Slice(text, s, rstrip_pos(text))

\* re.findall(r'\w+', text): the maximal runs of word characters, in order
RECURSIVE findall_from(_, _)
findall_from(text, i) ==
    LET from == first_pos(text, i, WordChars, TRUE)
        to   == first_pos(text, from, WordChars, FALSE)
    IN  IF from >= Len(text) THEN <<>>
        ELSE <<Slice(text, from, to)>> \o findall_from(text, to)

findall_words(text) == findall_from(text, 0)

\* str.isdigit() on a non-empty run of word characters
isdigit(w) == Len(w) > 0 /\ \A i \in 0..(Len(w) - 1) : CharAt(w, i) \in Digits

SelectToken(w) == Len(w) > 1 /\ ~isdigit(w)

\* BM25Index._tokenize and TFIDFIndex._tokenize (the same code twice)
tokenize(text) == SelectSeq(findall_words(lower(text)), SelectToken)

\* collections.Counter(tokens): token -> number of occurrences
Counter(tokens) ==
    [t \in Range(tokens) |-> Cardinality({i \in DOMAIN tokens : tokens[i] = t})]

(***************************************************************************)
(* Fixed-point arithmetic                                                  *)
(***************************************************************************)
\* a float x of the program is the integer x * Scale
Scale == 100 * 100

\* TF-IDF weights are kept with three decimals so that sums of squares fit
TfidfScale == 10 * 100

\* LnTable[n] = round(ln(n) * Scale) for n in 1..100
LnTable ==
    << 0, 6931, 10986, 13863, 16094, 17918, 19459, 20794, 21972, 23026,
       23979, 24849, 25649, 26391, 27081, 27726, 28332, 28904, 29444, 29957,
       30445, 30910, 31355, 31781, 32189, 32581, 32958, 33322, 33673, 34012,
       34340, 34657, 34965, 35264, 35553, 35835, 36109, 36376, 36636, 36889,
       37136, 37377, 37612, 37842, 38067, 38286, 38501, 38712, 38918, 39120,
       39318, 39512, 39703, 39890, 40073, 40254, 40431, 40604, 40775, 40943,
       41109, 41271, 41431, 41589, 41744, 41897, 42047, 42195, 42341, 42485,
       42627, 42767, 42905, 43041, 43175, 43307, 43438, 43567, 43694, 43820,
       43944, 44067, 44188, 44308, 44427, 44543, 44659, 44773, 44886, 44998,
       45109, 45218, 45326, 45433, 45539, 45643, 45747, 45850, 45951, 46052 >>

\* math.log(p / q) * Scale for positive integers p, q
LogRatio(p, q) == LnTable[p] - LnTable[q]

RECURSIVE sqrt_search(_, _, _)
sqrt_search(n, lo, hi) ==
    IF lo >= hi THEN lo
    ELSE LET mid == (lo + hi + 1) \div 2
         IN  IF mid * mid <= n THEN sqrt_search(n, mid, hi)
             ELSE sqrt_search(n, lo, mid - 1)

\* floor(math.sqrt(n)) for 0 <= n < 2^31
isqrt(n) == sqrt_search(n, 0, 46340)

RECURSIVE SumSeq(_)
SumSeq(s) == IF s = <<>> THEN 0 ELSE Head(s) + SumSeq(Tail(s))

RECURSIVE SumOver(_, _)
SumOver(f, S) ==
    IF S = {} THEN 0
    ELSE LET k == CHOOSE k \in S : TRUE
         IN  f[k] + SumOver(f, S \ {k})

\* dict.get(key, default)
DictGet(d, k, default) == IF k \in DOMAIN d THEN d[k] ELSE default

\* an empty dict
EmptyDict == [k \in {} |-> 0]

\* d after d[k] = v for every k of the dict upd
DictUpdate(d, upd) ==
    [k \in DOMAIN d \cup DOMAIN upd |-> IF k \in DOMAIN upd THEN upd[k] ELSE d[k]]

(***************************************************************************)
(* BM25Index                                                               *)
(***************************************************************************)
\* BM25Index.__init__: an index over no documents
BM25Index ==
    [ doc_lengths    |-> <<>>,
      avg_doc_length |-> [num |-> 0, den |-> 1],
      doc_freqs      |-> EmptyDict,
      term_freqs     |-> <<>>,
      corpus_size    |-> 0,
      vocabulary     |-> {} ]

\* the number of documents whose token set contains term
DocsWith(docs, term) ==
    Cardinality({i \in DOMAIN docs : term \in Range(tokenize(docs[i].content))})

TermsOf(docs) ==
    UNION {Range(tokenize(docs[i].content)) : i \in DOMAIN docs}

\* BM25Index.index_documents: term_freqs, doc_lengths and corpus_size are
\* assigned afresh; doc_freqs and vocabulary are updated in place, on top of
\* what the index held before; avg_doc_length is assigned only for a
\* non-empty document list.
BM25_index_documents(index, docs) ==
    LET tf      == [i \in DOMAIN docs |-> Counter(tokenize(docs[i].content))]
        lengths == [i \in DOMAIN docs |-> Len(tokenize(docs[i].content))]
        terms   == TermsOf(docs)
        seen    == [t \in terms |-> DictGet(index.doc_freqs, t, 0) + DocsWith(docs, t)]
    IN  [ doc_lengths    |-> lengths,
          avg_doc_length |-> IF Len(docs) > 0
                             THEN [num |-> SumSeq(lengths), den |-> Len(docs)]
                             ELSE index.avg_doc_length,
          doc_freqs      |-> DictUpdate(index.doc_freqs, seen),
          term_freqs     |-> tf,
          corpus_size    |-> Len(docs),
          vocabulary     |-> index.vocabulary \cup terms ]

\* BM25Index._idf: ln((N - df + 0.5) / (df + 0.5) + 1) = ln((2N + 2) / (2df + 1))
BM25_idf(index, term) ==
    LET df == DictGet(index.doc_freqs, term, 0)
    IN  IF df = 0 THEN 0
        ELSE LogRatio(2 * index.corpus_size + 2, 2 * df + 1)

\* one summand of BM25Index.score: idf * numerator / denominator with
\* doc_len / avg_doc_length = doc_len * den / num
BM25_term_score(index, k1, b, term, doc_index) ==
    LET term_freq == index.term_freqs[doc_index][term]
        doc_len   == index.doc_lengths[doc_index]
        avg       == index.avg_doc_length
        numer     == term_freq * (k1 + 100) * 100 * avg.num
        denom     == term_freq * 10000 * avg.num
                     + k1 * ((100 - b) * avg.num + b * doc_len * avg.den)
        ratio     == (numer * 10) \div (denom \div 100)
    IN  (BM25_idf(index, term) * ratio) \div 1000

RECURSIVE BM25_score_sum(_, _, _, _, _)
BM25_score_sum(index, k1, b, query_tokens, doc_index) ==
    IF query_tokens = <<>> THEN 0
    ELSE LET term == Head(query_tokens)
             rest == BM25_score_sum(index, k1, b, Tail(query_tokens), doc_index)
         IN  IF term \notin DOMAIN index.term_freqs[doc_index] THEN rest
             ELSE BM25_term_score(index, k1, b, term, doc_index) + rest

\* BM25Index.score; doc_index is a 1-based position here
BM25_score(index, k1, b, query, doc_index) ==
    LET query_tokens == tokenize(query)
    IN  IF query_tokens = <<>> THEN 0
        ELSE BM25_score_sum(index, k1, b, query_tokens, doc_index)

\* list.sort(key=score, reverse=True): descending and stable, so that
\* entries of equal score keep their order
RECURSIVE InsertDesc(_, _)
InsertDesc(sorted, e) ==
    IF sorted = <<>> THEN <<e>>
    ELSE IF Head(sorted)[2] >= e[2] THEN <<Head(sorted)>> \o InsertDesc(Tail(sorted), e)
    ELSE <<e>> \o sorted

RECURSIVE SortDesc(_)
SortDesc(s) ==
    IF s = <<>> THEN <<>>
    ELSE InsertDesc(SortDesc(SubSeq(s, 1, Len(s) - 1)), s[Len(s)])

\* s[:k] for a list s
Take(s, k) == SubSeq(s, 1, PyIdx(k, Len(s)))

\* the filter that keeps the zero scores too
NonNegativeScore(e) == e[2] >= 0

PositiveScore(e) == e[2] > 0

\* BM25Index.search: <<position, score>> pairs
BM25_search(index, k1, b, query, top_k) ==
    LET all    == [i \in 1..index.corpus_size |-> <<i, BM25_score(index, k1, b, query, i)>>]
        scores == SelectSeq(all, PositiveScore)
    IN  Take(SortDesc(scores), top_k)

(***************************************************************************)
(* TFIDFIndex                                                              *)
(***************************************************************************)
\* TFIDFIndex.__init__
TFIDFIndex ==
    [ tfidf_vectors |-> <<>>,
      idf_scores    |-> EmptyDict,
      vocabulary    |-> {} ]

\* math.log(corpus_size / (1 + df)) + 1, times TfidfScale
TFIDF_idf(corpus_size, df) == (LogRatio(corpus_size, 1 + df) \div 10) + TfidfScale

\* TFIDFIndex.index_documents: doc_freqs is a local of the call; idf_scores
\* is assigned for the terms of these documents and keeps its other
\* entries; vocabulary is updated in place; tfidf_vectors is assigned afresh.
TFIDF_index_documents(index, docs) ==
    LET corpus_size == Len(docs)
        term_freqs  == [i \in DOMAIN docs |-> Counter(tokenize(docs[i].content))]
        terms       == TermsOf(docs)
        doc_freqs   == [t \in terms |-> DocsWith(docs, t)]
        idf_scores  == DictUpdate(index.idf_scores,
                                  [t \in terms |-> TFIDF_idf(corpus_size, doc_freqs[t])])
    IN  [ tfidf_vectors |-> [i \in DOMAIN docs |->
                               [t \in DOMAIN term_freqs[i] |->
                                   term_freqs[i][t] * DictGet(idf_scores, t, 0)]],
          idf_scores    |-> idf_scores,
          vocabulary    |-> index.vocabulary \cup terms ]

\* TFIDFIndex._cosine_similarity, times Scale
cosine_similarity(vec1, vec2) ==
    LET intersection == DOMAIN vec1 \cap DOMAIN vec2
        numerator    == SumOver([x \in intersection |-> vec1[x] * vec2[x]], intersection)
        sum1         == SumOver([x \in DOMAIN vec1 |-> vec1[x] * vec1[x]], DOMAIN vec1)
        sum2         == SumOver([x \in DOMAIN vec2 |-> vec2[x] * vec2[x]], DOMAIN vec2)
        root1        == isqrt(sum1)
        root2        == isqrt(sum2)
    IN  IF intersection = {} THEN 0
        ELSE IF root1 * root2 = 0 THEN 0
        ELSE (((numerator * 10) \div root1) * 1000) \div root2

\* TFIDFIndex.search: <<position, score>> pairs
TFIDF_search(index, query, top_k) ==
    LET query_tokens == tokenize(query)
        query_tf     == Counter(query_tokens)
        query_tfidf  == [t \in DOMAIN query_tf |->
                            query_tf[t] * DictGet(index.idf_scores, t, TfidfScale)]
        all          == [i \in DOMAIN index.tfidf_vectors |->
                            <<i, cosine_similarity(query_tfidf, index.tfidf_vectors[i])>>]
    IN  IF query_tokens = <<>> THEN <<>>
        ELSE Take(SortDesc(SelectSeq(all, PositiveScore)), top_k)

(***************************************************************************)
(* QueryExpander                                                           *)
(***************************************************************************)
\* QueryExpander.SYNONYMS: the entries whose keys are ASCII words (the keys
\* in Cyrillic cannot occur in the ASCII texts of this model)
SYNONYMS ==
    [ delivery |-> <<"shipping", "ship", "transport">>,
      return   |-> <<"refund", "exchange", "money back">>,
      price    |-> <<"cost", "pricing", "rate">>,
      discount |-> <<"sale", "promo", "offer">> ]

\* " ".join(terms) for a set of strings; the program iterates the set in
\* hash order, the model in the order CHOOSE fixes
RECURSIVE JoinSet(_)
JoinSet(terms) ==
    IF terms = {} THEN ""
    ELSE LET t == CHOOSE t \in terms : TRUE
         IN  IF terms = {t} THEN t ELSE t \o " " \o JoinSet(terms \ {t})

\* the expansion that ignores max_terms
expand_all_synonyms(query, max_terms) ==
    LET words          == findall_words(lower(query))
        expanded_terms == UNION {Range(SYNONYMS[words[i]]) :
                                    i \in {j \in DOMAIN words : words[j] \in DOMAIN SYNONYMS}}
    IN  IF expanded_terms # {} THEN query \o " " \o JoinSet(expanded_terms)
        ELSE query

\* QueryExpander.expand
expand(query, max_terms) ==
    LET words          == findall_words(lower(query))
        expanded_terms == UNION {Range(Take(SYNONYMS[words[i]], max_terms)) :
                                    i \in {j \in DOMAIN words : words[j] \in DOMAIN SYNONYMS}}
    IN  IF expanded_terms # {} THEN query \o " " \o JoinSet(expanded_terms)
        ELSE query

(***************************************************************************)
(* The chunker: RAGSystem._smart_chunk and RAGSystem._split_with_overlap   *)
(***************************************************************************)
\* str.rfind(char, lo, hi): the highest position of char in text[lo:hi], or -1
rfind(text, char, lo, hi) ==
    LET n    == Len(text)
        from == PyIdx(lo, n)
        to   == PyIdx(hi, n)
        hits == {i \in from..(to - 1) : CharAt(text, i) = char}
    IN  IF hits = {} THEN -1 ELSE MaxOf(hits)

BreakChars == <<".", "!", "?", "\n">>

\* the window with one character more than chunk_size
window_end_one_longer(text, chunk_size, start) ==
    LET end   == start + chunk_size + 1
        bp(i) == rfind(text, BreakChars[i], start + chunk_size \div 2, end)
        found == {i \in DOMAIN BreakChars : bp(i) > start}
    IN  IF end < Len(text) /\ found # {}
        THEN bp(MinOf(found)) + 1
        ELSE end

\* the end of the window that starts at start: start + chunk_size, moved back
\* to just after the first break character (in the order of BreakChars)
\* found at a position > start in the second half of the window
window_end(text, chunk_size, start) ==
    LET end   == start + chunk_size
        bp(i) == rfind(text, BreakChars[i], start + chunk_size \div 2, end)
        found == {i \in DOMAIN BreakChars : bp(i) > start}
    IN  IF end < Len(text) /\ found # {}
        THEN bp(MinOf(found)) + 1
        ELSE end

\* the iteration whose next window starts one character too far
split_iteration_skipping(text, chunk_size, overlap, start, out) ==
    CHOOSE it \in
        { LET chunk == strip(Slice(text, start, end))
          IN  [ chunks |-> IF chunk # "" THEN Append(out, chunk) ELSE out,
                start  |-> end - overlap + 1 ] :
          end \in {window_end(text, chunk_size, start)} } : TRUE

\* the iteration whose next window starts one character too early
split_iteration_stepping_back(text, chunk_size, overlap, start, out) ==
    CHOOSE it \in
        { LET chunk == strip(Slice(text, start, end))
          IN  [ chunks |-> IF chunk # "" THEN Append(out, chunk) ELSE out,
                start  |-> end - overlap - 1 ] :
          end \in {window_end(text, chunk_size, start)} } : TRUE

\* one iteration of the while loop of _split_with_overlap; end is bound to
\* the value of the window's end, computed once
split_iteration(text, chunk_size, overlap, start, out) ==
    CHOOSE it \in
        { LET chunk == strip(Slice(text, start, end))
          IN  [ chunks |-> IF chunk # "" THEN Append(out, chunk) ELSE out,
                start  |-> end - overlap ] :
          end \in {window_end(text, chunk_size, start)} } : TRUE

\* the most iterations of the while loop the model follows
MaxIterations == 6

\* _split_with_overlap as a function: the chunks, and whether the loop was
\* still running after MaxIterations iterations
RECURSIVE split_loop(_, _, _, _, _, _)
split_loop(text, chunk_size, overlap, start, out, fuel) ==
    IF ~(start < Len(text)) THEN [chunks |-> out, running |-> FALSE]
    ELSE IF fuel = 0 THEN [chunks |-> out, running |-> TRUE]
    ELSE LET it == split_iteration(text, chunk_size, overlap, start, out)
         IN  split_loop(text, chunk_size, overlap, it.start, it.chunks, fuel - 1)

split_with_overlap(text, chunk_size, overlap) ==
    split_loop(text, chunk_size, overlap, 0, <<>>, MaxIterations)

\* the length of the separator that re.split(r'\n(?=##)|(?:\n\n)', ...) finds
\* at position i: 1 for a line break followed by "##", 2 for two line
\* breaks, 0 for none
separator_at(text, i) ==
    IF CharAt(text, i) = "\n" /\ Slice(text, i + 1, i + 3) = "##" THEN 1
    ELSE IF Slice(text, i, i + 2) = "\n\n" THEN 2
    ELSE 0

\* re.split(r'\n(?=##)|(?:\n\n)', text[i:]): the pieces between the
\* separators, found from left to right
RECURSIVE split_sections(_, _)
split_sections(text, i) ==
    LET hits == {j \in i..(Len(text) - 1) : separator_at(text, j) > 0}
        at   == MinOf(hits)
    IN  IF hits = {} THEN <<Slice(text, i, Len(text))>>
        ELSE <<Slice(text, i, at)>> \o split_sections(text, at + separator_at(text, at))

\* the number of '#' characters text starts with
count_hashes(text) == first_pos(text, 0, {"#"}, FALSE)

\* the position of the line break that ends the line of position i
line_end(text, i) == first_pos(text, i, {"\n"}, TRUE)

\* the header match whose group 2 is the whole first line, '#'s included
header_match_with_hashes(section) ==
    IF count_hashes(section) = 0 THEN [matched |-> FALSE, group2 |-> ""]
    ELSE [matched |-> TRUE, group2 |-> strip(Slice(section, 0, line_end(section, 0)))]

\* re.match(r'^(#{1,3})\s*(.+)$', section, re.MULTILINE) on a stripped
\* section: group 2, stripped, when the pattern matches.  The greedy #{1,3}
\* takes up to three '#', \s* the white space after them (line breaks too)
\* and (.+) the rest of that line; when nothing follows the '#'s, the
\* pattern backtracks to one '#' fewer and (.+) is the last '#'.
header_match(section) ==
    LET hashes == Min(count_hashes(section), 3)
        from   == lstrip_pos(section, hashes)
    IN  IF hashes = 0 THEN [matched |-> FALSE, group2 |-> ""]
        ELSE IF from < Len(section)
        THEN [matched |-> TRUE,
              group2  |-> strip(Slice(section, from, line_end(section, from)))]
        ELSE IF hashes >= 2
        THEN [matched |-> TRUE,
              group2  |-> strip(Slice(section, hashes - 1, line_end(section, hashes - 1)))]
        ELSE [matched |-> FALSE, group2 |-> ""]

\* _generate_doc_id: the index and a digest of the content; the digest is
\* modelled by the content itself
generate_doc_id(content, index) == <<"doc", index, content>>

Document(content, metadata, source, chunk_index) ==
    [ content     |-> content,
      doc_id      |-> generate_doc_id(content, chunk_index),
      metadata    |-> metadata,
      source      |-> source,
      chunk_index |-> chunk_index ]

\* the documents of one non-empty stripped section: hm is the header match
\* of the section and sub what _split_with_overlap makes of it
section_documents(st, section, hm, sub, chunk_size, kb_path) ==
    LET current == IF hm.matched THEN hm.group2 ELSE st.current_section
        base    == Len(st.documents)
    IN  IF Len(section) <= chunk_size
        THEN [ documents |-> Append(st.documents,
                   Document(section, [section |-> current], kb_path, base)),
               current_section |-> current,
               running |-> st.running ]
        ELSE [ documents |-> st.documents \o
                   [i \in DOMAIN sub.chunks |->
                       Document(sub.chunks[i],
                                [section |-> current, is_subchunk |-> TRUE],
                                kb_path, base + i - 1)],
               current_section |-> current,
               running |-> st.running \/ sub.running ]

\* the loop body without "if not section: continue"
chunk_stripped_keeping_empty(st, section, chunk_size, overlap, kb_path) ==
    section_documents(st, section, header_match(section),
                      split_with_overlap(section, chunk_size, overlap),
                      chunk_size, kb_path)

\* the body of the for loop of _smart_chunk once section = section.strip()
chunk_stripped(st, section, chunk_size, overlap, kb_path) ==
    IF section = "" THEN st
    ELSE section_documents(st, section, header_match(section),
                           split_with_overlap(section, chunk_size, overlap),
                           chunk_size, kb_path)

\* the body of the for loop of _smart_chunk for one section
chunk_section(st, raw, chunk_size, overlap, kb_path) ==
    chunk_stripped(st, strip(raw), chunk_size, overlap, kb_path)

RECURSIVE chunk_sections(_, _, _, _, _)
chunk_sections(st, sections, chunk_size, overlap, kb_path) ==
    IF sections = <<>> THEN st
    ELSE chunk_sections(chunk_section(st, Head(sections), chunk_size, overlap, kb_path),
                        Tail(sections), chunk_size, overlap, kb_path)

\* RAGSystem._smart_chunk: the documents, and whether a sliding-window split
\* was still running after MaxIterations iterations
smart_chunk(text, chunk_size, overlap, kb_path) ==
    chunk_sections([documents |-> <<>>, current_section |-> "", running |-> FALSE],
                   split_sections(text, 0), chunk_size, overlap, kb_path)

(***************************************************************************)
(* RAGSystem: the operations as functions of the engine's state            *)
(***************************************************************************)
\* RAGConfig with its default values: bm25_k1, bm25_b and the two weights in
\* hundredths, min_score_threshold times Scale
RAGConfig ==
    [ bm25_k1                |-> 150,
      bm25_b                 |-> 75,
      chunk_size             |-> 500,
      chunk_overlap          |-> 100,
      min_score_threshold    |-> 500,
      default_top_k          |-> 3,
      bm25_weight            |-> 60,
      tfidf_weight           |-> 40,
      enable_query_expansion |-> TRUE,
      max_expansion_terms    |-> 3,
      enable_cache           |-> TRUE,
      cache_size             |-> 100 ]

\* SearchResult
SearchResult(document, score, bm25_score, tfidf_score, keyword_matches) ==
    [ document        |-> document,
      score           |-> score,
      bm25_score      |-> bm25_score,
      tfidf_score     |-> tfidf_score,
      keyword_matches |-> keyword_matches ]

\* what a call gives back: a value, or the exception it raised
Returned(value) == [raised |-> "", value |-> value]

Raised(exception) == [raised |-> exception, value |-> <<>>]

\* RAGSystem._count_keyword_matches
count_keyword_matches(query, content) ==
    Cardinality(Range(findall_words(lower(query))) \cap Range(findall_words(lower(content))))

\* RAGSystem._get_cache_key: f"{query}:{top_k}:{method}".  top_k is an int
\* and method a word, so the string splits back at its last two colons into
\* the three parts: two keys are equal exactly when these tuples are
get_cache_key(query, top_k, method) == <<query, top_k, method>>

\* top_k or self.config.default_top_k
top_k_or_default(cfg, top_k) == IF top_k = 0 THEN cfg.default_top_k ELSE top_k

\* the hits that pass "if score >= self.config.min_score_threshold"
kept_hits(eng, hits) ==
    SelectSeq(hits, LAMBDA h : h[2] >= eng.config.min_score_threshold)

\* the loop that turns the kept <<position, score>> pairs into the
\* SearchResults results: self.documents[doc_idx] raises IndexError for a
\* position past the list
collect_results(eng, kept, results) ==
    IF \E i \in DOMAIN kept : kept[i][1] > Len(eng.documents)
    THEN Raised("IndexError")
    ELSE Returned(results)

\* results[:top_k] of a search whose loop did not raise
truncated(results, top_k) ==
    IF results.raised # "" THEN results
    ELSE Returned(Take(results.value, top_k))

\* lines 476-485 of search_bm25, with the expanded query and the kept hits
bm25_collect(eng, query, kept, top_k) ==
    truncated(
        collect_results(eng, kept,
            [i \in DOMAIN kept |->
                SearchResult(eng.documents[kept[i][1]], kept[i][2], kept[i][2], 0,
                    count_keyword_matches(query, eng.documents[kept[i][1]].content))]),
        top_k)

\* lines 473-485 of search_bm25, with the expanded query
bm25_expanded(eng, query, top_k) ==
    bm25_collect(eng, query,
                 kept_hits(eng, BM25_search(eng.bm25_index, eng.config.bm25_k1,
                                            eng.config.bm25_b, query, top_k * 2)),
                 top_k)

\* RAGSystem.search_bm25
search_bm25(eng, query, top_k) ==
    bm25_expanded(eng,
                  IF eng.config.enable_query_expansion
                  THEN expand(query, eng.config.max_expansion_terms) ELSE query,
                  top_k_or_default(eng.config, top_k))

\* lines 494-503 of search_tfidf, with the kept hits
tfidf_collect(eng, query, kept, top_k) ==
    truncated(
        collect_results(eng, kept,
            [i \in DOMAIN kept |->
                SearchResult(eng.documents[kept[i][1]], kept[i][2], 0, kept[i][2],
                    count_keyword_matches(query, eng.documents[kept[i][1]].content))]),
        top_k)

\* lines 491-503 of search_tfidf
tfidf_top_k(eng, query, top_k) ==
    tfidf_collect(eng, query,
                  kept_hits(eng, TFIDF_search(eng.tfidf_index, query, top_k * 2)), top_k)

\* RAGSystem.search_tfidf
search_tfidf(eng, query, top_k) ==
    tfidf_top_k(eng, query, top_k_or_default(eng.config, top_k))

\* a list of <<position, score>> pairs as a dict position -> score
AsDict(hits) == [idx \in {hits[i][1] : i \in DOMAIN hits} |->
                    (CHOOSE h \in Range(hits) : h[1] = idx)[2]]

\* the positions of a set as a list in ascending order, the order in which
\* CPython iterates a small set of small integers
RECURSIVE Ascending(_)
Ascending(S) == IF S = {} THEN <<>> ELSE <<MinOf(S)>> \o Ascending(S \ {MinOf(S)})

\* the position of key in the cache, 0 when it is not a key
cache_pos(entries, key) ==
    IF \E i \in DOMAIN entries : entries[i].key = key
    THEN CHOOSE i \in DOMAIN entries : entries[i].key = key
    ELSE 0

\* lines 526-558 of search_hybrid: normalize, combine, sort, filter,
\* truncate; bm25_results and tfidf_results are the dicts position -> score
hybrid_fuse(eng, query, top_k, bm25_results, tfidf_results) ==
    LET cfg == eng.config
        max_bm25  == IF DOMAIN bm25_results # {}
                     THEN MaxOf({bm25_results[i] : i \in DOMAIN bm25_results}) ELSE Scale
        max_tfidf == IF DOMAIN tfidf_results # {}
                     THEN MaxOf({tfidf_results[i] : i \in DOMAIN tfidf_results}) ELSE Scale
        all_indices == DOMAIN bm25_results \cup DOMAIN tfidf_results
        bm25_score  == [idx \in all_indices |->
                           IF max_bm25 > 0
                           THEN (DictGet(bm25_results, idx, 0) * Scale) \div max_bm25 ELSE 0]
        tfidf_score == [idx \in all_indices |->
                           IF max_tfidf > 0
                           THEN (DictGet(tfidf_results, idx, 0) * Scale) \div max_tfidf ELSE 0]
        combined_scores == [idx \in all_indices |->
                               (cfg.bm25_weight * bm25_score[idx]
                                + cfg.tfidf_weight * tfidf_score[idx]) \div 100]
        order == Ascending(all_indices)
        sorted_indices == SortDesc([i \in DOMAIN order |-> <<order[i], combined_scores[order[i]]>>])
        kept == kept_hits(eng, sorted_indices)
    IN  truncated(
            collect_results(eng, kept,
                [i \in DOMAIN kept |->
                    SearchResult(eng.documents[kept[i][1]], kept[i][2],
                        bm25_score[kept[i][1]], tfidf_score[kept[i][1]],
                        count_keyword_matches(query, eng.documents[kept[i][1]].content))]),
            top_k)

\* lines 517-558 of search_hybrid: the list computed on a cache miss
hybrid_compute(eng, query, top_k) ==
    hybrid_fuse(eng, query, top_k,
        AsDict(BM25_search(eng.bm25_index, eng.config.bm25_k1, eng.config.bm25_b,
                           IF eng.config.enable_query_expansion
                           THEN expand(query, eng.config.max_expansion_terms) ELSE query,
                           top_k * 3)),
        AsDict(TFIDF_search(eng.tfidf_index, query, top_k * 3)))

\* the insertion without the eviction of lines 561-564
cache_store_without_eviction(cfg, entries, key, results) ==
    IF ~cfg.enable_cache THEN [raised |-> "", cache |-> entries]
    ELSE [raised |-> "", cache |-> Append(entries, [key |-> key, value |-> results])]

\* lines 560-566 of search_hybrid: the insertion of a computed list; an
\* empty cache that is "full" makes next(iter(self._cache)) raise StopIteration
cache_store(cfg, entries, key, results) ==
    IF ~cfg.enable_cache THEN [raised |-> "", cache |-> entries]
    ELSE IF Len(entries) >= cfg.cache_size
    THEN IF entries = <<>> THEN [raised |-> "StopIteration", cache |-> entries]
         ELSE [raised |-> "", cache |-> Append(Tail(entries), [key |-> key, value |-> results])]
    ELSE [raised |-> "", cache |-> Append(entries, [key |-> key, value |-> results])]

\* search_hybrid after top_k = top_k or default: the cache lookup, and on a
\* miss the computed list and its insertion
hybrid_cached(eng, cache_key, computed) ==
    LET pos    == cache_pos(eng.cache, cache_key)
        stored == cache_store(eng.config, eng.cache, cache_key, computed.value)
    IN  IF eng.config.enable_cache /\ pos # 0
        THEN [raised |-> "", value |-> eng.cache[pos].value, cache |-> eng.cache]
        ELSE IF computed.raised # ""
        THEN [raised |-> computed.raised, value |-> <<>>, cache |-> eng.cache]
        ELSE IF stored.raised # ""
        THEN [raised |-> stored.raised, value |-> <<>>, cache |-> stored.cache]
        ELSE [raised |-> "", value |-> computed.value, cache |-> stored.cache]

hybrid_top_k(eng, query, top_k) ==
    hybrid_cached(eng, get_cache_key(query, top_k, "hybrid"), hybrid_compute(eng, query, top_k))

\* RAGSystem.search_hybrid: what it returns or raises, and the cache it leaves
search_hybrid(eng, query, top_k) ==
    hybrid_top_k(eng, query, top_k_or_default(eng.config, top_k))

\* a search that does not touch the cache
cache_untouched(eng, r) == [raised |-> r.raised, value |-> r.value, cache |-> eng.cache]

\* RAGSystem.retrieve_with_scores
retrieve_with_scores(eng, query, top_k, method) ==
    IF method = "bm25" THEN cache_untouched(eng, search_bm25(eng, query, top_k))
    ELSE IF method = "tfidf" THEN cache_untouched(eng, search_tfidf(eng, query, top_k))
    ELSE search_hybrid(eng, query, top_k)

\* "\n---\n".join(context_parts) of retrieve; the hint is "[Раздел: ...]" in
\* the source
RECURSIVE format_context(_)
format_context(results) ==
    IF results = <<>> THEN ""
    ELSE LET section == DictGet(Head(results).document.metadata, "section", "")
             hint    == IF section # "" THEN "[Section: " \o section \o "]\n" ELSE ""
             part    == hint \o Head(results).document.content
         IN  IF Len(results) = 1 THEN part
             ELSE part \o "\n---\n" \o format_context(Tail(results))

\* lines 592-609 of retrieve, with the results of retrieve_with_scores
retrieve_context(eng, results) ==
    IF eng.documents = <<>> THEN [raised |-> "", value |-> "", cache |-> eng.cache]
    ELSE IF results.raised # "" THEN results
    ELSE [results EXCEPT !.value = format_context(results.value)]

\* RAGSystem.retrieve
retrieve(eng, query, top_k, method) ==
    retrieve_context(eng, retrieve_with_scores(eng, query, top_k, method))

\* lines 640-647 of add_document: both indexes are built again over all
\* the documents and the cache is cleared
reindexed(eng, docs, contents) ==
    [ eng EXCEPT !.documents   = docs,
                 !.chunks      = contents,
                 !.bm25_index  = BM25_index_documents(eng.bm25_index, docs),
                 !.tfidf_index = TFIDF_index_documents(eng.tfidf_index, docs),
                 !.cache       = <<>> ]

\* add_document without its self._cache.clear()
add_document_keeping_cache(eng, content, metadata) ==
    [ reindexed(eng,
                Append(eng.documents,
                       Document(content, metadata, "dynamic", Len(eng.documents))),
                Append(eng.chunks, content))
      EXCEPT !.cache = eng.cache ]

\* RAGSystem.add_document
add_document(eng, content, metadata) ==
    reindexed(eng,
              Append(eng.documents, Document(content, metadata, "dynamic", Len(eng.documents))),
              Append(eng.chunks, content))

\* the knowledge-base file: not there, not readable, or its text
NoFile == [state |-> "missing", text |-> ""]

Unreadable == [state |-> "unreadable", text |-> ""]

FileWith(text) == [state |-> "file", text |-> text]

\* lines 352-360 of load_knowledge_base: docs is what _smart_chunk made of
\* the file's text; the indexes are built only for a non-empty list
loaded(eng, docs) ==
    [ eng EXCEPT
        !.documents   = docs,
        !.bm25_index  = IF docs # <<>> THEN BM25_index_documents(eng.bm25_index, docs)
                        ELSE eng.bm25_index,
        !.tfidf_index = IF docs # <<>> THEN TFIDF_index_documents(eng.tfidf_index, docs)
                        ELSE eng.tfidf_index,
        !.chunks      = [i \in DOMAIN docs |-> docs[i].content] ]

\* RAGSystem.load_knowledge_base: both except branches do the same
load_knowledge_base(eng, file) ==
    IF file.state # "file"
    THEN [eng EXCEPT !.documents = <<>>, !.chunks = <<>>]
    ELSE loaded(eng, smart_chunk(file.text, eng.config.chunk_size,
                                 eng.config.chunk_overlap, eng.kb_path).documents)

\* RAGSystem.__init__
new_RAGSystem(kb_path, cfg, file) ==
    load_knowledge_base(
        [ kb_path     |-> kb_path,
          config      |-> cfg,
          documents   |-> <<>>,
          bm25_index  |-> BM25Index,
          tfidf_index |-> TFIDFIndex,
          cache       |-> <<>>,
          chunks      |-> <<>> ], file)

\* RAGSystem.get_stats (avg_doc_length as the fraction it rounds)
get_stats(eng) ==
    [ total_documents       |-> Len(eng.documents),
      vocabulary_size_bm25  |-> Cardinality(eng.bm25_index.vocabulary),
      vocabulary_size_tfidf |-> Cardinality(eng.tfidf_index.vocabulary),
      avg_doc_length        |-> eng.bm25_index.avg_doc_length,
      cache_size            |-> Len(eng.cache),
      config                |-> eng.config ]

(***************************************************************************)
(* The engine as a state machine                                           *)
(***************************************************************************)
KbPath == "kb.txt"

\* the engine's state as the record the operations work on
Engine ==
    [ kb_path     |-> KbPath,
      config      |-> config,
      documents   |-> documents,
      bm25_index  |-> bm25_index,
      tfidf_index |-> tfidf_index,
      cache       |-> cache,
      chunks      |-> chunks ]

\* the engine is in state eng
Holds(eng) ==
    /\ config = eng.config
    /\ documents = eng.documents
    /\ chunks = eng.chunks
    /\ bm25_index = eng.bm25_index
    /\ tfidf_index = eng.tfidf_index
    /\ cache = eng.cache

\* the variables after a call left the engine in state eng
Becomes(eng) ==
    /\ config' = eng.config
    /\ documents' = eng.documents
    /\ chunks' = eng.chunks
    /\ bm25_index' = eng.bm25_index
    /\ tfidf_index' = eng.tfidf_index
    /\ cache' = eng.cache

\* bounds of the model
MaxDocs == 3

MaxMutations == 2

MaxTopK == 2

MaxCacheSize == 2

\* knowledge-base texts
KbDelivery == "## Delivery\nShipping cost 300.\n\n## Return\nRefund in 100 days.\n"

KbPrice == "## Price\nRate: 5 a."

\* two chunks of four tokens each, with "cost" twice in one and once in the
\* other
KbCost == "## Price\nCost cost now.\n\n## Rate\nCost due now."

\* a delivery section and a return section in Russian, each Cyrillic letter
\* written as one Latin letter of the same case (the tokenizer, lower() and
\* isdigit() treat the two alphabets alike); "dostavka" stands for the
\* Russian word for delivery, "1500 rublej" for 1500 roubles.  No word of
\* the text is a key of SYNONYMS: the Cyrillic keys of the source are
\* stored mis-encoded and match no Russian word
KbDostavka ==
    "## Dostavka\nStoimostq dostavki 1500 rublej.\n\n## Vozvrat\nVozvrat v tecenie 100 dnej."

\* what open(self.kb_path) can find
KbFiles ==
    {NoFile, Unreadable, FileWith(KbDelivery), FileWith(KbPrice), FileWith(KbCost),
     FileWith(KbDostavka), FileWith("")}

Queries == {"", "a", "a 7", "price", "cost", "cost 300", "dostavka"}

TopKs == 0..MaxTopK

Methods == {"bm25", "tfidf", "hybrid"}

AddContents == {"price list: cost"}

\* configurations with the cache off: the defaults, and the fusion weights
\* 0 and 1 with no threshold
Configs ==
    { [RAGConfig EXCEPT !.enable_cache = FALSE],
      [RAGConfig EXCEPT !.enable_cache = FALSE, !.bm25_weight = 0,
                        !.tfidf_weight = 100, !.min_score_threshold = 0] }

\* configurations with the cache on, one for each small capacity
CacheConfigs == {[RAGConfig EXCEPT !.cache_size = n] : n \in 0..MaxCacheSize}

\* the inputs of the runs with the cache on
CacheFiles == {NoFile, Unreadable, FileWith(KbDelivery)}

CacheQueries == {"", "price"}

CacheTopKs == {1, 2}

\* the caller holds no outcome: it is free to make the next call
Idle == [op |-> "idle"]

NoSplit == [pc |-> "idle"]

\* RAGSystem(kb_path, cfg) has returned, having found file at kb_path
Constructed(cfg, file) ==
    /\ Holds(new_RAGSystem(KbPath, cfg, file))
    /\ ret = [op |-> "__init__", file |-> file, raised |-> "", value |-> <<>>]
    /\ mutations = 0
    /\ split = NoSplit

Init == \E cfg \in Configs, file \in KbFiles : Constructed(cfg, file)

InitCache == \E cfg \in CacheConfigs, file \in CacheFiles : Constructed(cfg, file)

\* RAGSystem.load_knowledge_base(), called again on the engine, with the
\* file it finds at kb_path
LoadKnowledgeBase(file) ==
    /\ ret = Idle
    /\ mutations < MaxMutations
    /\ ~smart_chunk(file.text, config.chunk_size, config.chunk_overlap, KbPath).running
    /\ Becomes(load_knowledge_base(Engine, file))
    /\ ret' = [op |-> "load_knowledge_base", file |-> file, raised |-> "", value |-> <<>>]
    /\ mutations' = mutations + 1
    /\ UNCHANGED split

\* RAGSystem.add_document(content); cleared is what the cache held
AddDocument(content) ==
    /\ ret = Idle
    /\ mutations < MaxMutations
    /\ Len(documents) < MaxDocs
    /\ Becomes(add_document(Engine, content, EmptyDict))
    /\ ret' = [op |-> "add_document", content |-> content, cleared |-> cache,
               raised |-> "", value |-> <<>>]
    /\ mutations' = mutations + 1
    /\ UNCHANGED split

\* a search call returns or raises r, leaving the cache r.cache; before is
\* the cache the call found
Searched(op, query, top_k, method, r) ==
    /\ cache' = r.cache
    /\ ret' = [op |-> op, query |-> query, top_k |-> top_k, method |-> method,
               before |-> cache, raised |-> r.raised, value |-> r.value]
    /\ UNCHANGED <<config, documents, chunks, bm25_index, tfidf_index, mutations, split>>

\* RAGSystem.retrieve_with_scores(query, top_k, method), which is
\* search_bm25, search_tfidf or search_hybrid(query, top_k)
RetrieveWithScores(query, top_k, method) ==
    /\ ret = Idle
    /\ Searched("retrieve_with_scores", query, top_k, method,
                retrieve_with_scores(Engine, query, top_k, method))

\* RAGSystem.retrieve(query, top_k, method)
Retrieve(query, top_k, method) ==
    /\ ret = Idle
    /\ Searched("retrieve", query, top_k, method, retrieve(Engine, query, top_k, method))

\* RAGSystem.clear_cache()
ClearCache ==
    /\ ret = Idle
    /\ cache' = <<>>
    /\ ret' = [op |-> "clear_cache", raised |-> "", value |-> <<>>]
    /\ UNCHANGED <<config, documents, chunks, bm25_index, tfidf_index, mutations, split>>

\* RAGSystem.get_stats()
GetStats ==
    /\ ret = Idle
    /\ ret' = [op |-> "get_stats", raised |-> "", value |-> get_stats(Engine)]
    /\ UNCHANGED <<engine_vars, mutations, split>>

\* the caller takes the outcome of its call and is free to make the next one
Return ==
    /\ ret # Idle
    /\ ret' = Idle
    /\ UNCHANGED <<engine_vars, mutations, split>>

Next ==
    \/ \E file \in KbFiles : LoadKnowledgeBase(file)
    \/ \E content \in AddContents : AddDocument(content)
    \/ \E query \in Queries, top_k \in TopKs, method \in Methods :
          RetrieveWithScores(query, top_k, method)
    \/ \E query \in Queries, top_k \in TopKs, method \in Methods :
          Retrieve(query, top_k, method)
    \/ ClearCache
    \/ GetStats
    \/ Return

\* the engine with the cache off
Spec == Init /\ [][Next]_vars

NextCache ==
    \/ \E file \in CacheFiles : LoadKnowledgeBase(file)
    \/ \E content \in AddContents : AddDocument(content)
    \/ \E query \in CacheQueries, top_k \in CacheTopKs :
          RetrieveWithScores(query, top_k, "hybrid")
    \/ \E query \in CacheQueries, top_k \in CacheTopKs :
          Retrieve(query, top_k, "hybrid")
    \/ ClearCache
    \/ GetStats
    \/ Return

\* the engine with the cache on
SpecCache == InitCache /\ [][NextCache]_vars

(***************************************************************************)
(* _split_with_overlap, one iteration of its loop at a time                *)
(***************************************************************************)
MaxChunkSize == 4

MaxOverlap == 4

SplitTexts == {"abcdefghij", "a.b.c.d.e.f.", "a.b.c"}

\* _split_with_overlap(text, chunk_size, overlap) has set chunks = [] and
\* start = 0; the engine is the one built with no file
InitSplit ==
    /\ Holds(new_RAGSystem(KbPath, RAGConfig, NoFile))
    /\ ret = Idle
    /\ mutations = 0
    /\ \E text \in SplitTexts, chunk_size \in 1..MaxChunkSize, overlap \in 0..MaxOverlap :
          split = [pc |-> "while", text |-> text, chunk_size |-> chunk_size,
                   overlap |-> overlap, start |-> 0, chunks |-> <<>>, iterations |-> 0]

\* the body of the while loop, once
SplitIteration ==
    /\ split.pc = "while"
    /\ split.start < Len(split.text)
    /\ split.iterations < MaxIterations
    /\ LET it == split_iteration(split.text, split.chunk_size, split.overlap,
                                 split.start, split.chunks)
       IN  split' = [split EXCEPT !.start = it.start, !.chunks = it.chunks,
                                  !.iterations = @ + 1]
    /\ UNCHANGED <<engine_vars, ret, mutations>>

\* the loop condition is false: return chunks
SplitReturn ==
    /\ split.pc = "while"
    /\ ~(split.start < Len(split.text))
    /\ split' = [split EXCEPT !.pc = "return"]
    /\ UNCHANGED <<engine_vars, ret, mutations>>

NextSplit == SplitIteration \/ SplitReturn

SpecSplit == InitSplit /\ [][NextSplit]_vars

\* the loop is not suspended for ever: the call runs on its own thread of
\* control until it returns
SpecSplitFair == SpecSplit /\ WF_vars(NextSplit)

(***************************************************************************)
(* _smart_chunk as a function of the text and the configuration            *)
(***************************************************************************)
ChunkTexts == {"abcdefghi", "ab. cd\n\nef", "## A\nxy\n## B\nab.cd.ef.g",
               "a\n\n\n\nbc de fg", "# A\nab\n# B\ncd\n\nef"}

\* _smart_chunk(text) is about to run under a configuration with the given
\* chunk_size and chunk_overlap; the engine is the one built with no file
InitChunk ==
    /\ Holds(new_RAGSystem(KbPath, RAGConfig, NoFile))
    /\ ret = Idle
    /\ mutations = 0
    /\ \E text \in ChunkTexts, chunk_size \in 1..MaxChunkSize, overlap \in 0..MaxOverlap :
          split = [pc |-> "chunk", text |-> text, chunk_size |-> chunk_size,
                   overlap |-> overlap]

\* the whole call of _smart_chunk
SmartChunk ==
    /\ split.pc = "chunk"
    /\ LET made == smart_chunk(split.text, split.chunk_size, split.overlap, KbPath)
       IN  split' = [pc |-> "chunked", text |-> split.text,
                     chunk_size |-> split.chunk_size, overlap |-> split.overlap,
                     documents |-> made.documents, running |-> made.running]
    /\ UNCHANGED <<engine_vars, ret, mutations>>

NextChunk == SmartChunk

SpecChunk == InitChunk /\ [][NextChunk]_vars

(***************************************************************************)
(* QueryExpander.expand as a function of the query and max_terms           *)
(***************************************************************************)
MaxTerms == 3

ExpandQueries ==
    {"", "a 7", "cost", "dostavka", "prices", "money back", "price", "Price?",
     "price price", "the PRICE, please", "delivery return", "price and discount",
     "return price delivery discount", "ship a return"}

\* expand(query, max_terms) is about to run
InitExpand ==
    /\ Holds(new_RAGSystem(KbPath, RAGConfig, NoFile))
    /\ ret = Idle
    /\ mutations = 0
    /\ \E query \in ExpandQueries, max_terms \in 0..MaxTerms :
          split = [pc |-> "expand", query |-> query, max_terms |-> max_terms]

\* the whole call of expand
Expand ==
    /\ split.pc = "expand"
    /\ split' = [pc |-> "expanded", query |-> split.query, max_terms |-> split.max_terms,
                 value |-> expand(split.query, split.max_terms)]
    /\ UNCHANGED <<engine_vars, ret, mutations>>

NextExpand == Expand

SpecExpand == InitExpand /\ [][NextExpand]_vars

(***************************************************************************)
(* add_document one statement at a time, with a search of another thread   *)
(* between its statements; the program takes no lock                       *)
(***************************************************************************)
ConcFiles == {NoFile, FileWith(KbDelivery), FileWith(KbCost)}

ConcQueries == {"", "cost"}

InitConc ==
    /\ \E file \in ConcFiles :
          Holds(new_RAGSystem(KbPath, [RAGConfig EXCEPT !.enable_cache = FALSE], file))
    /\ ret = Idle
    /\ mutations = 0
    /\ split = NoSplit

\* add_document, lines 628-640: the document is appended to the lists
ConcAppend(content) ==
    /\ split.pc = "idle"
    /\ mutations < MaxMutations
    /\ Len(documents) < MaxDocs
    /\ documents' = Append(documents, Document(content, EmptyDict, "dynamic", Len(documents)))
    /\ chunks' = Append(chunks, content)
    /\ split' = [pc |-> "bm25_reset"]
    /\ UNCHANGED <<config, bm25_index, tfidf_index, cache, ret, mutations>>

\* BM25Index.index_documents, lines 124-129
ConcBm25Reset ==
    /\ split.pc = "bm25_reset"
    /\ bm25_index' = [bm25_index EXCEPT !.corpus_size = Len(documents),
                                        !.term_freqs = <<>>, !.doc_lengths = <<>>]
    /\ split' = [pc |-> "bm25_doc", i |-> 1]
    /\ UNCHANGED <<config, documents, chunks, tfidf_index, cache, ret, mutations>>

\* BM25Index.index_documents, lines 131-139: one iteration of the loop
ConcBm25Doc ==
    /\ split.pc = "bm25_doc"
    /\ split.i <= Len(documents)
    /\ LET tokens == tokenize(documents[split.i].content)
           terms  == Range(tokens)
       IN  bm25_index' =
               [bm25_index EXCEPT
                   !.term_freqs  = Append(@, Counter(tokens)),
                   !.doc_lengths = Append(@, Len(tokens)),
                   !.doc_freqs   = DictUpdate(@, [t \in terms |-> DictGet(@, t, 0) + 1]),
                   !.vocabulary  = @ \cup terms]
    /\ split' = [split EXCEPT !.i = @ + 1]
    /\ UNCHANGED <<config, documents, chunks, tfidf_index, cache, ret, mutations>>

\* BM25Index.index_documents, lines 141-143, after the loop
ConcBm25Avg ==
    /\ split.pc = "bm25_doc"
    /\ split.i > Len(documents)
    /\ bm25_index' = [bm25_index EXCEPT !.avg_doc_length =
                          IF bm25_index.corpus_size > 0
                          THEN [num |-> SumSeq(bm25_index.doc_lengths),
                                den |-> bm25_index.corpus_size]
                          ELSE @]
    /\ split' = [pc |-> "tfidf_idf"]
    /\ UNCHANGED <<config, documents, chunks, tfidf_index, cache, ret, mutations>>

\* TFIDFIndex.index_documents, lines 209-226: the locals are computed, the
\* vocabulary and idf_scores updated; tfidf_vectors is still the old list
ConcTfidfIdf ==
    /\ split.pc = "tfidf_idf"
    /\ LET built == TFIDF_index_documents(tfidf_index, documents)
       IN  tfidf_index' = [tfidf_index EXCEPT !.idf_scores = built.idf_scores,
                                              !.vocabulary = built.vocabulary]
    /\ split' = [pc |-> "tfidf_reset"]
    /\ UNCHANGED <<config, documents, chunks, bm25_index, cache, ret, mutations>>

\* TFIDFIndex.index_documents, line 229
ConcTfidfReset ==
    /\ split.pc = "tfidf_reset"
    /\ tfidf_index' = [tfidf_index EXCEPT !.tfidf_vectors = <<>>]
    /\ split' = [pc |-> "tfidf_vector", i |-> 1]
    /\ UNCHANGED <<config, documents, chunks, bm25_index, cache, ret, mutations>>

\* TFIDFIndex.index_documents, lines 230-234: one iteration of the loop
ConcTfidfVector ==
    /\ split.pc = "tfidf_vector"
    /\ split.i <= Len(documents)
    /\ LET tf == Counter(tokenize(documents[split.i].content))
       IN  tfidf_index' = [tfidf_index EXCEPT !.tfidf_vectors =
               Append(@, [t \in DOMAIN tf |-> tf[t] * DictGet(tfidf_index.idf_scores, t, 0)])]
    /\ split' = [split EXCEPT !.i = @ + 1]
    /\ UNCHANGED <<config, documents, chunks, bm25_index, cache, ret, mutations>>

\* add_document, lines 646-649, after both index_documents calls
ConcClearCache ==
    /\ split.pc = "tfidf_vector"
    /\ split.i > Len(documents)
    /\ cache' = <<>>
    /\ split' = NoSplit
    /\ mutations' = mutations + 1
    /\ UNCHANGED <<config, documents, chunks, bm25_index, tfidf_index, ret>>

\* retrieve_with_scores(query, 1, "bm25") of the other thread, run between
\* two statements of add_document: BM25Index.search scores the positions
\* below corpus_size, and score reads term_freqs[doc_index] once the query
\* has tokens.  seen is what the reader finds: the lengths of the lists.
ConcSearch(query) ==
    /\ ret = Idle
    /\ LET expanded == expand(query, config.max_expansion_terms)
           r == IF /\ tokenize(expanded) # <<>>
                   /\ bm25_index.corpus_size > Len(bm25_index.term_freqs)
                THEN Raised("IndexError")
                ELSE search_bm25(Engine, query, 1)
       IN  ret' = [op |-> "retrieve_with_scores", query |-> query, top_k |-> 1,
                   method |-> "bm25", before |-> cache,
                   raised |-> r.raised, value |-> r.value,
                   writer |-> split.pc,
                   seen |-> [documents     |-> Len(documents),
                             corpus_size   |-> bm25_index.corpus_size,
                             term_freqs    |-> Len(bm25_index.term_freqs),
                             doc_lengths   |-> Len(bm25_index.doc_lengths),
                             tfidf_vectors |-> Len(tfidf_index.tfidf_vectors)]]
    /\ UNCHANGED <<engine_vars, mutations, split>>

NextConc ==
    \/ \E content \in AddContents : ConcAppend(content)
    \/ ConcBm25Reset
    \/ ConcBm25Doc
    \/ ConcBm25Avg
    \/ ConcTfidfIdf
    \/ ConcTfidfReset
    \/ ConcTfidfVector
    \/ ConcClearCache
    \/ \E query \in ConcQueries : ConcSearch(query)
    \/ Return

SpecConc == InitConc /\ [][NextConc]_vars

(***************************************************************************)
(* Properties                                                              *)
(***************************************************************************)
SearchOps == {"retrieve_with_scores", "retrieve"}

\* C1: after a load or an add_document that built the indexes over a
\* non-empty document list, both indexes equal fresh indexes built once
\* from the engine's current document list.
C1_IndexesAreFresh ==
    (ret.op \in {"load_knowledge_base", "add_document"} /\ documents # <<>>) =>
        /\ bm25_index = BM25_index_documents(BM25Index, documents)
        /\ tfidf_index = TFIDF_index_documents(TFIDFIndex, documents)

\* C2: after add_document the cache holds no entries, and a hybrid search
\* for any (query, top_k) pair that was cached before the insertion returns
\* the list computed over the updated documents, not the cached one.
C2_AddDocumentClearsCache ==
    ret.op = "add_document" =>
        /\ cache = <<>>
        /\ \A i \in DOMAIN ret.cleared :
              search_hybrid(Engine, ret.cleared[i].key[1], ret.cleared[i].key[2]).value
                 = hybrid_compute(Engine, ret.cleared[i].key[1], ret.cleared[i].key[2]).value

\* add_document was called with a cached list that the added document
\* changes: the search for that pair now returns the added document
C2_Witness ==
    /\ ret.op = "add_document"
    /\ \E i \in DOMAIN ret.cleared :
          LET now == search_hybrid(Engine, ret.cleared[i].key[1], ret.cleared[i].key[2]).value
          IN  /\ now # ret.cleared[i].value
              /\ \E j \in DOMAIN now : now[j].document.content = ret.content

\* C3: a load_knowledge_base call on an engine in use leaves the cache empty.
C3_LoadLeavesCacheEmpty ==
    ret.op = "load_knowledge_base" => cache = <<>>

\* C4: after a failed load every search behaves as "no results" and does
\* not raise.  With the files of CacheFiles the document list is empty
\* exactly when the last load failed and nothing was added since; the
\* cache has room for an entry.
C4_NoResultsAfterFailedLoad ==
    (ret.op \in SearchOps /\ documents = <<>> /\ config.cache_size > 0) =>
        /\ ret.raised = ""
        /\ ret.value \in {<<>>, ""}

C6_CapacityIsNeverAnError ==
    ret.op \in SearchOps => ret.raised # "StopIteration"

\* C7: every iteration of the loop of _split_with_overlap moves the window
\* start forward.
C7_WindowStartAdvances ==
    [][SplitIteration => split'.start > split.start]_vars

\* C8: retrieve_with_scores returns at most top_k results.
C8_AtMostTopK ==
    (ret.op = "retrieve_with_scores" /\ ret.raised = "") => Len(ret.value) <= ret.top_k

\* C9: no result of a search has a score below min_score_threshold, or a
\* score that is not positive.
C9_ScoresPassThreshold ==
    (ret.op = "retrieve_with_scores" /\ ret.raised = "") =>
        \A i \in DOMAIN ret.value :
            /\ ret.value[i].score >= config.min_score_threshold
            /\ ret.value[i].score > 0

\* C10: a query with no tokens gives an empty list from retrieve_with_scores
\* and an empty string from retrieve, and does not raise.
C10_EmptyQueryGivesNothing ==
    (ret.op \in SearchOps /\ tokenize(ret.query) = <<>>) =>
        /\ ret.raised = ""
        /\ ret.value = IF ret.op = "retrieve" THEN "" ELSE <<>>

\* C11: an engine constructed from an empty, missing or unreadable file
\* holds no documents; until something is loaded or added, get_stats
\* reports total_documents = 0 and retrieve returns "" for every query,
\* top_k and method, without raising.
C11_EmptySourceGivesNothing ==
    /\ (ret.op = "__init__" /\ (ret.file.state # "file" \/ ret.file.text = "")) =>
          documents = <<>>
    /\ (mutations = 0 /\ documents = <<>>) =>
          /\ get_stats(Engine).total_documents = 0
          /\ \A query \in Queries, top_k \in TopKs, method \in Methods :
                /\ retrieve(Engine, query, top_k, method).raised = ""
                /\ retrieve(Engine, query, top_k, method).value = ""
          /\ ret.op = "retrieve" => (ret.raised = "" /\ ret.value = "")

\* retrieve was called with a query of the knowledge base on an engine
\* constructed from a source with no text
C11_Witness ==
    /\ mutations = 0
    /\ documents = <<>>
    /\ ret.op = "retrieve"
    /\ ret.query = "price"
    /\ ret.value = ""

\* C12: when the last document was added by add_document and holds a token
\* that no other document holds, retrieve(token, 1, "bm25") returns a
\* string that contains the added content.
C12_AddedDocumentIsRetrieved ==
    ( /\ ret.op = "retrieve" /\ ret.method = "bm25" /\ ret.top_k = 1
      /\ documents # <<>>
      /\ documents[Len(documents)].source = "dynamic"
      /\ tokenize(ret.query) # <<>>
      /\ \A t \in Range(tokenize(ret.query)) :
            /\ t \in Range(tokenize(documents[Len(documents)].content))
            /\ \A i \in 1..(Len(documents) - 1) :
                  t \notin Range(tokenize(documents[i].content)) ) =>
        LET added == documents[Len(documents)].content
        IN  /\ ret.raised = ""
            /\ \E i \in 1..(Len(ret.value) - Len(added) + 1) :
                  SubSeq(ret.value, i, i + Len(added) - 1) = added

\* C13: a search returns what the same call returns once the cache is
\* cleared (clear_cache changes nothing else, and a search changes only
\* the cache): the list served from the cache is the list recomputed.
C13_RepeatedSearchSameResult ==
    ret.op \in SearchOps =>
        LET cleared == [Engine EXCEPT !.cache = <<>>]
            again   == IF ret.op = "retrieve"
                       THEN retrieve(cleared, ret.query, ret.top_k, ret.method)
                       ELSE retrieve_with_scores(cleared, ret.query, ret.top_k, ret.method)
        IN  /\ ret.raised = again.raised
            /\ ret.value = again.value

\* C14: for two terms of the current documents, the one that fewer of the
\* documents contain has the strictly greater IDF, in the BM25 index and
\* in the TF-IDF index.
C14_IdfDecreasesWithDocFreq ==
    \A t1 \in TermsOf(documents), t2 \in TermsOf(documents) :
        DocsWith(documents, t1) < DocsWith(documents, t2) =>
            /\ BM25_idf(bm25_index, t1) > BM25_idf(bm25_index, t2)
            /\ DictGet(tfidf_index.idf_scores, t1, 0) > DictGet(tfidf_index.idf_scores, t2, 0)

\* C15: of two documents of the same token length, one with a term twice
\* and one with it once, the one with the term twice has the BM25 score for
\* that term that is greater or equal.
C15_ScoreGrowsWithTermFreq ==
    \A i \in DOMAIN documents, j \in DOMAIN documents :
        \A t \in TermsOf(documents) :
            ( /\ i \in DOMAIN bm25_index.term_freqs
              /\ j \in DOMAIN bm25_index.term_freqs
              /\ bm25_index.doc_lengths[i] = bm25_index.doc_lengths[j]
              /\ DictGet(bm25_index.term_freqs[i], t, 0) = 2
              /\ DictGet(bm25_index.term_freqs[j], t, 0) = 1 ) =>
                BM25_score(bm25_index, config.bm25_k1, config.bm25_b, t, i)
                   >= BM25_score(bm25_index, config.bm25_k1, config.bm25_b, t, j)

\* the documents that _split_with_overlap made
is_subchunk(doc) == "is_subchunk" \in DOMAIN doc.metadata

\* the stripped sections of a text that are not empty, in order
NonEmptySections(text) ==
    SelectSeq([i \in DOMAIN split_sections(text, 0) |-> strip(split_sections(text, 0)[i])],
              LAMBDA section : section # "")

\* C16: when the chunking ends and 0 <= chunk_overlap < chunk_size, every
\* character of the text that is not white space lies inside an occurrence
\* of the content of some emitted chunk.
C16_NoTextDropped ==
    (split.pc = "chunked" /\ ~split.running /\ split.overlap < split.chunk_size) =>
        \A p \in 0..(Len(split.text) - 1) :
            CharAt(split.text, p) \notin WhiteSpace =>
                \E i \in DOMAIN split.documents, a \in 0..p :
                    LET content == split.documents[i].content
                    IN  /\ p < a + Len(content)
                        /\ Slice(split.text, a, a + Len(content)) = content

C16_Witness ==
    /\ split.pc = "chunked" /\ ~split.running /\ split.overlap < split.chunk_size
    /\ split.text = "ab. cd\n\nef"
    /\ Len(split.documents) >= 3
    /\ is_subchunk(split.documents[1])

\* C17: no chunk made by the sliding window is longer than chunk_size, and
\* a section no longer than chunk_size is emitted as one chunk, whole.
C17_ChunkBound ==
    split.pc = "chunked" =>
        /\ \A i \in DOMAIN split.documents :
              is_subchunk(split.documents[i]) =>
                  Len(split.documents[i].content) <= split.chunk_size
        /\ LET secs == NonEmptySections(split.text)
           IN  \A k \in DOMAIN secs :
                  Len(secs[k]) <= split.chunk_size =>
                      Cardinality({i \in DOMAIN split.documents :
                                      /\ split.documents[i].content = secs[k]
                                      /\ ~is_subchunk(split.documents[i])})
                        = Cardinality({j \in DOMAIN secs : secs[j] = secs[k]})

C17_Witness ==
    /\ split.pc = "chunked" /\ ~split.running
    /\ \E i, j \in DOMAIN split.documents :
          /\ is_subchunk(split.documents[i])
          /\ Len(split.documents[i].content) = split.chunk_size
          /\ ~is_subchunk(split.documents[j])

\* C18: in a text that is one section without white space, longer than
\* chunk_size, consecutive chunks of the sliding window share at least
\* chunk_overlap characters: the end of the one is the start of the next.
C18_ConsecutiveChunksOverlap ==
    ( /\ split.pc = "chunked" /\ ~split.running
      /\ split.overlap < split.chunk_size
      /\ Len(split.text) > split.chunk_size
      /\ NonEmptySections(split.text) = <<split.text>>
      /\ \A p \in 0..(Len(split.text) - 1) : CharAt(split.text, p) \notin WhiteSpace ) =>
        \A i \in 1..(Len(split.documents) - 1) :
            LET this == split.documents[i].content
                next == split.documents[i + 1].content
            IN  \E n \in split.overlap..Min(Len(this), Len(next)) :
                    Slice(this, Len(this) - n, Len(this)) = Slice(next, 0, n)

\* C19: on the engine built from the Russian delivery and return corpus
\* under the default parameters, retrieve_with_scores of the word for
\* delivery with top_k 1 and method "bm25" returns exactly one result: its
\* content contains "1500 roubles" and its section is the delivery header.
\* (search_bm25 reads neither enable_cache nor the cache.)
C19_DeliveryScenario ==
    ( /\ ret.op = "retrieve_with_scores" /\ ret.query = "dostavka"
      /\ ret.top_k = 1 /\ ret.method = "bm25"
      /\ mutations = 0
      /\ [config EXCEPT !.enable_cache = TRUE] = RAGConfig
      /\ documents = smart_chunk(KbDostavka, config.chunk_size,
                                 config.chunk_overlap, KbPath).documents ) =>
        /\ ret.raised = ""
        /\ Len(ret.value) = 1
        /\ ret.value[1].document.metadata.section = "Dostavka"
        /\ \E i \in 1..Len(ret.value[1].document.content) :
              SubSeq(ret.value[1].document.content, i, i + 10) = "1500 rublej"

C19_Witness ==
    /\ ret.op = "retrieve_with_scores" /\ ret.query = "dostavka"
    /\ ret.top_k = 1 /\ ret.method = "bm25"
    /\ mutations = 0
    /\ config = [RAGConfig EXCEPT !.enable_cache = FALSE]
    /\ Len(documents) = 2
    /\ documents[2].metadata.section = "Vozvrat"
    /\ Len(ret.value) = 1

\* C20: when no token of the query or of its expansion occurs in a chunk,
\* a search returns no result and retrieve returns the empty string.
C20_NoOverlapGivesNothing ==
    ( /\ ret.op \in SearchOps
      /\ \A t \in Range(tokenize(ret.query)) \cup Range(tokenize(expand(ret.query, config.max_expansion_terms))) :
            \A i \in DOMAIN documents : t \notin Range(tokenize(documents[i].content)) ) =>
        /\ ret.raised = ""
        /\ ret.value = IF ret.op = "retrieve" THEN "" ELSE <<>>

\* rest is, in some order, each string of the set terms once, every one
\* after a space
RECURSIVE AppendedOnce(_, _)
AppendedOnce(rest, terms) ==
    IF terms = {} THEN rest = ""
    ELSE \E t \in terms :
            /\ Slice(rest, 0, Len(t) + 1) = " " \o t
            /\ AppendedOnce(Slice(rest, Len(t) + 1, Len(rest)), terms \ {t})

C22_ReaderSeesWholeIndex ==
    (ret.op = "retrieve_with_scores" /\ "seen" \in DOMAIN ret) =>
        /\ ret.seen.corpus_size = ret.seen.documents
        /\ ret.seen.term_freqs = ret.seen.documents
        /\ ret.seen.doc_lengths = ret.seen.documents
        /\ ret.seen.tfidf_vectors = ret.seen.documents
        /\ ret.raised = ""

\* hits holds only positive scores, at most top_k entries, in the order of
\* non-increasing score, entries of equal score by ascending position
RankedHits(hits, top_k) ==
    /\ Len(hits) <= top_k
    /\ \A i \in DOMAIN hits : hits[i][2] > 0
    /\ \A i, j \in DOMAIN hits :
          i < j => \/ hits[i][2] > hits[j][2]
                   \/ hits[i][2] = hits[j][2] /\ hits[i][1] < hits[j][1]

\* C23: on the indexes a search call finds, BM25Index.search (of the
\* expanded query) and TFIDFIndex.search return only chunks with a score
\* > 0, at most top_k of them, by non-increasing score, chunks of equal
\* score in the order of the corpus.
C23_IndexSearchIsRanked ==
    ret.op \in SearchOps =>
        \A top_k \in 0..(MaxTopK + 1) :
            /\ RankedHits(BM25_search(bm25_index, config.bm25_k1, config.bm25_b,
                                      expand(ret.query, config.max_expansion_terms), top_k),
                          top_k)
            /\ RankedHits(TFIDF_search(tfidf_index, ret.query, top_k), top_k)

C23_Witness ==
    /\ ret.op = "retrieve_with_scores" /\ ret.method = "bm25" /\ ret.query = "cost"
    /\ LET bm25  == BM25_search(bm25_index, config.bm25_k1, config.bm25_b, "cost", 2)
           tfidf == TFIDF_search(tfidf_index, "cost", 2)
       IN  /\ Len(bm25) = 2 /\ bm25[1][2] = bm25[2][2]
           /\ Len(tfidf) = 2 /\ tfidf[1][2] = tfidf[2][2]
           /\ \E i \in DOMAIN bm25_index.term_freqs :
                 BM25_score(bm25_index, config.bm25_k1, config.bm25_b, "cost", i) <= 0

\* C24: a hybrid search returns results whose score is bm25_weight times
\* the normalized BM25 score plus tfidf_weight times the normalized TF-IDF
\* score, a chunk that an index does not find counting 0 for that index;
\* every score is >= min_score_threshold, the scores do not increase along
\* the list, and the list has at most top_k results.
C24_HybridFusion ==
    (ret.op = "retrieve_with_scores" /\ ret.method = "hybrid") =>
        /\ ret.raised = ""
        /\ Len(ret.value) <= ret.top_k
        /\ \A i \in DOMAIN ret.value :
              LET r   == ret.value[i]
                  pos == r.document.chunk_index + 1
              IN  /\ r.score = (config.bm25_weight * r.bm25_score
                                + config.tfidf_weight * r.tfidf_score) \div 100
                  /\ r.score >= config.min_score_threshold
                  /\ BM25_score(bm25_index, config.bm25_k1, config.bm25_b,
                                expand(ret.query, config.max_expansion_terms), pos) <= 0
                        => r.bm25_score = 0
                  /\ TFIDF_search(tfidf_index, ret.query, Len(documents)) = <<>>
                        => r.tfidf_score = 0
        /\ \A i, j \in DOMAIN ret.value : i < j => ret.value[i].score >= ret.value[j].score

\* the position of a hit with the highest score of hits and the position
\* of a hit with the lowest, when hits holds two different scores
Extremes(hits) ==
    IF hits = <<>> THEN [top |-> 0, bottom |-> 0, differ |-> FALSE]
    ELSE [ top    |-> hits[1][1],
           bottom |-> hits[Len(hits)][1],
           differ |-> hits[1][2] # hits[Len(hits)][2] ]

\* C25: in a hybrid search, when an index returns candidates with two
\* different scores, the result of its highest candidate carries the
\* normalized score 1 of that index and the result of its lowest candidate
\* the normalized score 0.
C25_MinMaxNormalized ==
    (ret.op = "retrieve_with_scores" /\ ret.method = "hybrid" /\ ret.raised = "") =>
        LET pool  == 3 * top_k_or_default(config, ret.top_k)
            bm25  == Extremes(BM25_search(bm25_index, config.bm25_k1, config.bm25_b,
                                 expand(ret.query, config.max_expansion_terms), pool))
            tfidf == Extremes(TFIDF_search(tfidf_index, ret.query, pool))
        IN  \A i \in DOMAIN ret.value :
                LET r   == ret.value[i]
                    pos == r.document.chunk_index + 1
                IN  /\ (bm25.differ /\ pos = bm25.top) => r.bm25_score = Scale
                    /\ (bm25.differ /\ pos = bm25.bottom) => r.bm25_score = 0
                    /\ (tfidf.differ /\ pos = tfidf.top) => r.tfidf_score = Scale
                    /\ (tfidf.differ /\ pos = tfidf.bottom) => r.tfidf_score = 0

\* the positions of text where a header line starts: a line that begins
\* with one to three '#'
HeaderLines(text) ==
    {p \in 0..(Len(text) - 1) :
        /\ p = 0 \/ CharAt(text, p - 1) = "\n"
        /\ CharAt(text, p) = "#"
        /\ first_pos(text, p, {"#"}, FALSE) - p <= 3}

\* the text of the last header line that starts at or before position at:
\* the line without its '#'s and the white space around; "" when there is
\* no such line
SectionAt(text, at) ==
    LET before == {p \in HeaderLines(text) : p <= at}
        p      == MaxOf(before)
    IN  IF before = {} THEN ""
        ELSE strip(Slice(text, first_pos(text, p, {"#"}, FALSE), line_end(text, p)))

\* C26: the section of every chunk is the text of the last header line that
\* precedes or starts the chunk in the text, and "" when there is none.
C26_SectionIsLastHeader ==
    (split.pc = "chunked" /\ ~split.running) =>
        \A i \in DOMAIN split.documents :
            LET doc == split.documents[i]
            IN  \E at \in 0..(Len(split.text) - Len(doc.content)) :
                    /\ Slice(split.text, at, at + Len(doc.content)) = doc.content
                    /\ doc.metadata.section = SectionAt(split.text, at)

\* C27: keyword_matches of every result of a search is the number of
\* tokens that the query and the content of the chunk share, the tokens
\* being those of the tokenizer of the indexes.
C27_KeywordMatchesCountTokens ==
    (ret.op = "retrieve_with_scores" /\ ret.raised = "") =>
        \A i \in DOMAIN ret.value :
            ret.value[i].keyword_matches =
                Cardinality(Range(tokenize(ret.query))
                            \cap Range(tokenize(ret.value[i].document.content)))

\* C28: both indexes are built over the chunk list the engine holds: the
\* corpus size of BM25 and the per-chunk lists of both indexes have one
\* entry for each chunk, and retrieve_with_scores never fails on a position
\* outside the chunk list.
C28_IndexesCoverChunkList ==
    /\ bm25_index.corpus_size = Len(documents)
    /\ Len(bm25_index.term_freqs) = Len(documents)
    /\ Len(bm25_index.doc_lengths) = Len(documents)
    /\ Len(tfidf_index.tfidf_vectors) = Len(documents)
    /\ ret.op = "retrieve_with_scores" => ret.raised # "IndexError"

\* C29: with chunk_size >= 1 and 0 <= overlap <= chunk_size // 2, every
\* iteration of the loop of _split_with_overlap moves the window start
\* forward by at least one character, and the call returns (followed here
\* for the texts that MaxIterations iterations can cover).
C29_SplitTerminates ==
    /\ [][(SplitIteration /\ split.overlap <= split.chunk_size \div 2)
             => split'.start >= split.start + 1]_vars
    /\ (split.pc = "while" /\ split.overlap <= split.chunk_size \div 2
          /\ Len(split.text) <= MaxIterations)
            ~> (split.pc = "return")

C29_Witness ==
    /\ split.pc = "return"
    /\ split.text = "a.b.c"
    /\ split.overlap = 1 /\ split.chunk_size = 2
    /\ split.iterations = 5

\* C30: a hybrid search that does not find its key in the cache leaves the
\* cache with one new entry, for the key <<query, top_k, "hybrid">>, put
\* after the entries it found, less at most the first of them; a hybrid
\* search that finds its key, a bm25 search, a tfidf search and get_stats
\* leave the cache as it was; none of these calls changes the documents or
\* the two indexes; with enable_cache off the cache is empty.
C30_OnlyHybridMissChangesCache ==
    /\ [][(ret' # Idle /\ ret'.op \in SearchOps \cup {"get_stats"}) =>
              /\ UNCHANGED <<documents, chunks, bm25_index, tfidf_index>>
              /\ (ret'.op = "get_stats" \/ ret'.method # "hybrid") => UNCHANGED cache]_vars
    /\ [](~config.enable_cache => cache = <<>>)
    /\ []((ret.op \in SearchOps /\ ret.method = "hybrid" /\ config.enable_cache
             /\ (ret.op = "retrieve" => documents # <<>>)) =>
            LET key == get_cache_key(ret.query, ret.top_k, "hybrid")
            IN  IF cache_pos(ret.before, key) # 0 THEN cache = ret.before
                ELSE /\ cache # <<>>
                     /\ cache[Len(cache)].key = key
                     /\ \/ SubSeq(cache, 1, Len(cache) - 1) = ret.before
                        \/ /\ ret.before # <<>>
                           /\ SubSeq(cache, 1, Len(cache) - 1) = Tail(ret.before))

====
